---- MODULE Spec2Model ----
(***************************************************************************)
(* A model of server.py of the Wish-List application: the users and items *)
(* tables, the item handlers (add, delete, mark/unmark purchased, bulk    *)
(* archive, restore, the two listings) and the metadata extraction of     *)
(* fetch_metadata.                                                         *)
(*                                                                         *)
(* Every handler is one atomic step, except add_item: its blocking call   *)
(* of fetch_metadata (requests.get, timeout 10 s) is the place where      *)
(* other requests run in between, so add_item is AddBegin (lines 327-350) *)
(* followed by AddFinish (lines 352-369). A handler is a function from the *)
(* database and the request to the database afterwards and the response;  *)
(* the response of the request just completed is held in last until       *)
(* Respond sends it, and the next step of any request is taken after that.*)
(*                                                                         *)
(* SELECT ... fetchone() without ORDER BY on the index-free items table   *)
(* is a scan in rowid order: it yields the matching row of lowest id.     *)
(* Spec has the requests of one user with interleaved adds, SpecUsers     *)
(* those of two users for one url with the two listings, SpecSeq those of *)
(* two users with each request run from its first line to its last, and  *)
(* SpecExtract one call of fetch_metadata on each document of a bounded   *)
(* vocabulary.                                                             *)
(* The admin handlers, set_link and the JSON migration of init_db are     *)
(* not modelled; the database starts as init_db leaves it when no legacy  *)
(* JSON file exists (user 'chris', no item).                               *)
(***************************************************************************)
EXTENDS Integers, Sequences, FiniteSets, Bags, TLC

(* ------------------------------ bounds -------------------------------- *)
MaxRows == 3        \* rows ever inserted into items (AUTOINCREMENT ids)
MaxDay == 1         \* days that pass while the server runs
NumProcs == 2       \* add requests that can be in flight at a time
MaxElems == 3       \* elements of a fetched document

(* --------------------------- Python values ---------------------------- *)
None == "<None>"            \* Python None / SQL NULL / JSON body without the key
NoAttr == "<no-attribute>"  \* a tag without the attribute asked for
\* Variant: "is not None" where the code tests truth
TruthyNotNone(v) == v # None
\* Python truth of None and of a string
Truthy(v) == v \notin {None, ""}
PyOr(a, b) == IF Truthy(a) THEN a ELSE b

Usernames == {"chris", "ana"}
Urls == {"http://a.example/p", "http://b.example/q"}

\* urlparse(url).netloc
netloc(url) ==
    CASE url = "http://a.example/p" -> "a.example"
      [] url = "http://b.example/q" -> "b.example"
      [] OTHER -> ""

VARIABLES users, userSeq, items, itemSeq, today, inflight, last, fetched, extracted

vars == <<users, userSeq, items, itemSeq, today, inflight, last, fetched, extracted>>
dbVars == <<users, userSeq, items, itemSeq>>
extractVars == <<fetched, extracted>>

NotRun == [state |-> "not-run"]

(* ------------------------- fetched documents -------------------------- *)
\* The parsed page (BeautifulSoup), as the sequence of the elements the code
\* asks for, in document order.
Meta(attr, key, content) == [tag |-> "meta", attr |-> attr, key |-> key, content |-> content]
TitleTag(string) == [tag |-> "title", string |-> string]
Script(type, string) == [tag |-> "script", type |-> type, string |-> string]
LdJson(string) == Script("application/ld+json", string)

\* JSON values as json.loads returns them
JNull == [t |-> "null"]
JStr(s) == [t |-> "str", s |-> s]
JList(elems) == [t |-> "list", elems |-> elems]
JDict(map) == [t |-> "dict", map |-> map]

Offer(p) == JDict([price |-> JStr(p)])
Product(offers) == JDict([offers |-> offers])

\* json.loads(script.string): None raises TypeError, malformed text raises
\* JSONDecodeError; the texts are those of JsonTexts.
json_loads(text) ==
    CASE text = "{\"offers\":{\"price\":\"29.99\"}}" ->
            [ok |-> TRUE, value |-> Product(Offer("29.99"))]
      [] text = "{\"offers\":{\"price\":\"\"}}" ->
            [ok |-> TRUE, value |-> Product(Offer(""))]
      [] text = "{\"offers\":[{\"price\":\"31.00\"},{\"price\":\"32.00\"}]}" ->
            [ok |-> TRUE, value |-> Product(JList(<<Offer("31.00"), Offer("32.00")>>))]
      [] text = "{\"offers\":[]}" ->
            [ok |-> TRUE, value |-> Product(JList(<<>>))]
      [] text = "{\"offers\":\"free\"}" ->
            [ok |-> TRUE, value |-> Product(JStr("free"))]
      [] text = "{\"name\":\"x\"}" ->
            [ok |-> TRUE, value |-> JDict([name |-> JStr("x")])]
      [] text = "{\"@graph\":[{\"offers\":{\"price\":\"42.00\"}}]}" ->
            [ok |-> TRUE, value |-> JDict("@graph" :> JList(<<Product(Offer("42.00"))>>))]
      [] text = "{\"@graph\":[{\"offers\":{\"price\":\"\"}},{\"offers\":{\"price\":\"43.00\"}}]}" ->
            [ok |-> TRUE, value |->
                JDict("@graph" :> JList(<<Product(Offer("")), Product(Offer("43.00"))>>))]
      [] text = "{\"@graph\":[null,{\"offers\":{\"price\":\"44.00\"}}]}" ->
            [ok |-> TRUE, value |->
                JDict("@graph" :> JList(<<JNull, Product(Offer("44.00"))>>))]
      [] text = "[{\"offers\":{\"price\":\"45.00\"}}]" ->
            [ok |-> TRUE, value |-> JList(<<Product(Offer("45.00"))>>)]
      [] OTHER -> [ok |-> FALSE]

\* dict.get(key): the value, None when the key is missing or JSON null
DictGet(d, key) ==
    IF key \in DOMAIN d.map /\ d.map[key].t = "str" THEN d.map[key].s ELSE None

\* One pass of "for obj in objects" (lines 169-176) from index i on.
\* exc: an exception left the try block.
RECURSIVE scan_objects(_, _, _)
scan_objects(objects, i, price) ==
    IF i > Len(objects) THEN [price |-> price, exc |-> FALSE]
    ELSE LET obj == objects[i] IN
         CASE obj.t = "null" -> [price |-> price, exc |-> TRUE]   \* "offers" in None
           [] obj.t = "str" ->
                IF obj.s = "offers" THEN [price |-> price, exc |-> TRUE]  \* str["offers"]
                ELSE scan_objects(objects, i + 1, price)
           [] obj.t = "list" ->
                IF \E k \in 1..Len(obj.elems) : obj.elems[k] = JStr("offers")
                THEN [price |-> price, exc |-> TRUE]                     \* list["offers"]
                ELSE scan_objects(objects, i + 1, price)
           [] obj.t = "dict" ->
                IF "offers" \notin DOMAIN obj.map
                THEN scan_objects(objects, i + 1, price)
                ELSE LET offers == obj.map["offers"] IN
                     CASE offers.t = "list" ->
                            IF Len(offers.elems) = 0 \/ offers.elems[1].t # "dict"
                            THEN [price |-> price, exc |-> TRUE]  \* IndexError, AttributeError
                            ELSE LET p == DictGet(offers.elems[1], "price") IN
                                 IF Truthy(p) THEN [price |-> p, exc |-> FALSE]
                                 ELSE scan_objects(objects, i + 1, p)
                       [] offers.t = "dict" ->
                            LET p == DictGet(offers, "price") IN
                            IF Truthy(p) THEN [price |-> p, exc |-> FALSE]
                            ELSE scan_objects(objects, i + 1, p)
                       [] OTHER ->
                            IF Truthy(price) THEN [price |-> price, exc |-> FALSE]
                            ELSE scan_objects(objects, i + 1, price)

\* The body of the try block for one script (lines 161-176)
scan_block(script, price) ==
    LET parsed == json_loads(script.string) IN
    IF ~parsed.ok THEN [price |-> price, exc |-> TRUE]
    ELSE LET data == parsed.value IN
         IF data.t # "dict" THEN [price |-> price, exc |-> FALSE]
         ELSE IF "@graph" \in DOMAIN data.map
              THEN LET g == data.map["@graph"] IN
                   IF g.t = "list" THEN scan_objects(g.elems, 1, price)
                   ELSE [price |-> price, exc |-> TRUE]
              ELSE scan_objects(<<data>>, 1, price)

IsLdJson(e) == e.tag = "script" /\ e.type = "application/ld+json"

\* Variant: an exception in one block ends the scan (no "continue")
RECURSIVE scan_scripts_abort(_, _, _)
scan_scripts_abort(d, i, price) ==
    IF i > Len(d) THEN price
    ELSE IF ~IsLdJson(d[i]) THEN scan_scripts_abort(d, i + 1, price)
    ELSE LET r == scan_block(d[i], price) IN
         IF r.exc THEN r.price
         ELSE IF Truthy(r.price) THEN r.price
         ELSE scan_scripts_abort(d, i + 1, r.price)
\* "for script in soup.find_all(...)" (lines 159-179) from element i on
RECURSIVE scan_scripts(_, _, _)
scan_scripts(d, i, price) ==
    IF i > Len(d) THEN price
    ELSE IF ~IsLdJson(d[i]) THEN scan_scripts(d, i + 1, price)
    ELSE LET r == scan_block(d[i], price) IN
         IF r.exc THEN scan_scripts(d, i + 1, r.price)          \* except: continue
         ELSE IF Truthy(r.price) THEN r.price                   \* if price: break
         ELSE scan_scripts(d, i + 1, r.price)

\* soup.find("meta", <attr>=<key>): index of the first such element, 0 for None
find_meta(d, attr, key) ==
    LET hits == {i \in 1..Len(d) : d[i].tag = "meta" /\ d[i].attr = attr /\ d[i].key = key}
    IN IF hits = {} THEN 0 ELSE CHOOSE i \in hits : \A j \in hits : i <= j

\* a or b or c over find results (a Tag is always true)
FirstFound(a, b, c) == IF a # 0 THEN a ELSE IF b # 0 THEN b ELSE c

\* og(name), lines 138-140: tag["content"] raises KeyError without the attribute
og(d, key) ==
    LET i == find_meta(d, "property", key) IN
    IF i = 0 THEN [raised |-> FALSE, value |-> None]
    ELSE IF d[i].content = NoAttr THEN [raised |-> TRUE, value |-> None]
    ELSE [raised |-> FALSE, value |-> d[i].content]

\* str.strip() on the title texts of TitleStrings
strip(s) ==
    CASE s = " Page " -> "Page"
      [] s = "  " -> ""
      [] OTHER -> s

\* soup.title.string.strip() if soup.title else None (line 142)
plain_title(d) ==
    LET hits == {i \in 1..Len(d) : d[i].tag = "title"} IN
    IF hits = {} THEN [raised |-> FALSE, value |-> None]
    ELSE LET i == CHOOSE i \in hits : \A j \in hits : i <= j IN
         IF d[i].string = None THEN [raised |-> TRUE, value |-> None]  \* None.strip()
         ELSE [raised |-> FALSE, value |-> strip(d[i].string)]

\* lines 149-155
meta_price(d) ==
    LET price_tag == FirstFound(find_meta(d, "property", "product:price:amount"),
                                find_meta(d, "property", "og:price:amount"),
                                find_meta(d, "itemprop", "price"))
    IN IF price_tag # 0 /\ Truthy(d[price_tag].content) /\ d[price_tag].content # NoAttr
       THEN d[price_tag].content ELSE None

\* lines 146-179
extract_price(d) ==
    LET price == meta_price(d) IN
    IF Truthy(price) THEN price ELSE scan_scripts(d, 1, price)

Raised == [raised |-> TRUE]
Metadata(t, de, im, pr) ==
    [raised |-> FALSE, title |-> t, description |-> de, image |-> im, price |-> pr]

\* lines 136-181: the extraction from a page that was fetched
extract(d) ==
    LET ogt == og(d, "og:title")
        pt == plain_title(d)
        ogd == og(d, "og:description")
        ogi == og(d, "og:image")
    IN IF ogt.raised THEN Raised
       ELSE IF ~Truthy(ogt.value) /\ pt.raised THEN Raised
       ELSE IF ogd.raised \/ ogi.raised THEN Raised
       ELSE Metadata(PyOr(ogt.value, pt.value), ogd.value, ogi.value, extract_price(d))

\* the outcome of requests.get + raise_for_status
FetchFailure == [ok |-> FALSE]
Fetched(d) == [ok |-> TRUE, doc |-> d]

\* Variant: the exception of a failed GET is not caught
fetch_metadata_unguarded(outcome) ==
    IF ~outcome.ok THEN Raised ELSE extract(outcome.doc)
\* fetch_metadata(url), lines 127-181, given what the network answered
fetch_metadata(outcome) ==
    IF ~outcome.ok THEN Metadata(None, None, None, None) ELSE extract(outcome.doc)

(* ------------------------------ database ------------------------------ *)
\* SELECT id FROM users WHERE username = ?
UserRows(name) == {u \in users : u.username = name}

\* get_user_id(username, create=True), lines 266-279: the id returned, the
\* users table and the AUTOINCREMENT counter afterwards
get_user_id(name) ==
    IF UserRows(name) # {}
    THEN [id |-> (CHOOSE u \in UserRows(name) : TRUE).id, users |-> users, seq |-> userSeq]
    ELSE [id |-> userSeq + 1,
          users |-> users \cup {[id |-> userSeq + 1, username |-> name]},
          seq |-> userSeq + 1]

\* Variant: the lookup by url alone (no user_id = ?)
MatchingAnyUser(rows, uid, url) == {r \in rows : r.url = url /\ url # None}
\* Variant: the lookup restricted to archived rows
MatchingArchived(rows, uid, url) ==
    {r \in rows : r.user_id = uid /\ r.url = url /\ url # None /\ r.archived}
\* SELECT ... FROM items WHERE user_id = ? AND url = ?  (url = NULL matches no row)
Matching(rows, uid, url) == {r \in rows : r.user_id = uid /\ r.url = url /\ url # None}

\* cursor.fetchone(): the row of lowest rowid of a scan, None for no row
fetchone(rows) == CHOOSE r \in rows : \A o \in rows : r.id <= o.id

NewRow(id, uid, url, md, day) ==
    [id |-> id, user_id |-> uid, url |-> url, title |-> md.title,
     description |-> md.description, image |-> md.image, price |-> md.price,
     source |-> netloc(url), added_date |-> day, purchased |-> FALSE, archived |-> FALSE]

\* The answer of the request that the step just taken completed
Response(op, name, url, status, code) ==
    [op |-> op, username |-> name, url |-> url, status |-> status, code |-> code,
     title |-> None, count |-> 0, rowcount |-> 0, fetches |-> 0, listing |-> <<>>]
NoResponse == Response("none", None, None, None, 0)

Init ==
    /\ users = {[id |-> 1, username |-> "chris"]}      \* init_db, line 77
    /\ userSeq = 1
    /\ items = {}
    /\ itemSeq = 0
    /\ today = 0
    /\ inflight = EmptyBag
    /\ last = NoResponse
    /\ fetched = [ok |-> FALSE]
    /\ extracted = NotRun

(* ------------------------------ handlers ------------------------------ *)
\* Each handler is a function of the database and the request to the database
\* afterwards and the response; the action of the same name in capitals applies it.
Result(u, us, it, is, resp) ==
    [users |-> u, userSeq |-> us, items |-> it, itemSeq |-> is, response |-> resp]

\* The pages the fetcher returns to add_item
PageSamples ==
    { <<Meta("property", "og:title", "Lamp"), Meta("property", "product:price:amount", "19.99")>>,
      <<Meta("property", "og:title", NoAttr)>> }
FetchOutcomes == {FetchFailure} \cup {Fetched(d) : d \in PageSamples}

\* UPDATE items SET archived = 0, purchased = 0, added_date = ? WHERE id = ?  (line 342)
restore_row(rows, row, day) ==
    (rows \ {row}) \cup
        {[row EXCEPT !.archived = FALSE, !.purchased = FALSE, !.added_date = day]}

\* An add_item request waiting for fetch_metadata to return
Pending(uid, name, url) == [user_id |-> uid, username |-> name, url |-> url]

\* Variant: the existence check restricted to the active rows (AND archived = 0)
add_item_check_active(name, url) ==
    IF ~Truthy(url)
    THEN Result(users, userSeq, items, itemSeq, Response("add", name, url, "error", 400))
    ELSE LET g == get_user_id(name)
             m == {r \in Matching(items, g.id, url) : ~r.archived}
         IN IF m # {}
            THEN Result(g.users, g.seq, items, itemSeq,
                        Response("add", name, url, "exists", 200))
            ELSE Result(g.users, g.seq, items, itemSeq, NoResponse)
\* add_item up to the call of fetch_metadata, lines 326-352. A response of
\* NoResponse: no return was reached, fetch_metadata is called.
add_item_check(name, url) ==
    IF ~Truthy(url)
    THEN Result(users, userSeq, items, itemSeq, Response("add", name, url, "error", 400))
    ELSE LET g == get_user_id(name)
             m == Matching(items, g.id, url)
         IN IF m # {}
            THEN LET row == fetchone(m) IN
                 IF row.archived
                 THEN Result(g.users, g.seq, restore_row(items, row, today), itemSeq,
                             [Response("add", name, url, "restored", 200)
                                 EXCEPT !.title = row.title, !.rowcount = 1])
                 ELSE Result(g.users, g.seq, items, itemSeq,
                             Response("add", name, url, "exists", 200))
            ELSE Result(g.users, g.seq, items, itemSeq, NoResponse)

\* Variant: the insert looks at the table again and skips a key that is there
add_item_insert_unique(r, outcome) ==
    LET md == fetch_metadata(outcome) IN
    IF md.raised
    THEN Result(users, userSeq, items, itemSeq,
                [Response("add", r.username, r.url, "error", 500) EXCEPT !.fetches = 1])
    ELSE IF Matching(items, r.user_id, r.url) # {}
    THEN Result(users, userSeq, items, itemSeq, Response("add", r.username, r.url, "exists", 200))
    ELSE Result(users, userSeq,
                items \cup {NewRow(itemSeq + 1, r.user_id, r.url, md, today)}, itemSeq + 1,
                [Response("add", r.username, r.url, "added", 200)
                    EXCEPT !.title = md.title, !.rowcount = 1, !.fetches = 1])
\* add_item from the return of fetch_metadata on, lines 352-369, for the
\* pending request r
add_item_insert(r, outcome) ==
    LET md == fetch_metadata(outcome) IN
    IF md.raised
    THEN Result(users, userSeq, items, itemSeq,
                [Response("add", r.username, r.url, "error", 500) EXCEPT !.fetches = 1])
    ELSE Result(users, userSeq,
                items \cup {NewRow(itemSeq + 1, r.user_id, r.url, md, today)}, itemSeq + 1,
                [Response("add", r.username, r.url, "added", 200)
                    EXCEPT !.title = md.title, !.rowcount = 1, !.fetches = 1])

\* Variant: the row found first is deleted by id
delete_item_one(name, url) ==
    LET g == get_user_id(name)
        m == Matching(items, g.id, url)
    IN Result(g.users, g.seq, IF m = {} THEN items ELSE items \ {fetchone(m)}, itemSeq,
              [Response("delete", name, url, "deleted", 200)
                  EXCEPT !.rowcount = IF m = {} THEN 0 ELSE 1])
\* lines 372-381
delete_item(name, url) ==
    LET g == get_user_id(name)
        m == Matching(items, g.id, url)
    IN Result(g.users, g.seq, items \ m, itemSeq,
              [Response("delete", name, url, "deleted", 200) EXCEPT !.rowcount = Cardinality(m)])

\* Variant: the UPDATE restricted to the active rows (AND archived = 0)
set_purchased_active(rows, m, flag) ==
    LET a == {r \in m : ~r.archived}
    IN (rows \ a) \cup {[r EXCEPT !.purchased = flag] : r \in a}
\* UPDATE items SET purchased = ? WHERE user_id = ? AND url = ?
set_purchased(rows, m, flag) ==
    (rows \ m) \cup {[r EXCEPT !.purchased = flag] : r \in m}

\* lines 384-392
mark_purchased(name, url) ==
    LET g == get_user_id(name)
        m == Matching(items, g.id, url)
    IN Result(g.users, g.seq, set_purchased(items, m, TRUE), itemSeq,
              [Response("mark_purchased", name, url, "marked", 200)
                  EXCEPT !.rowcount = Cardinality(m)])

\* lines 395-403
unmark_purchased(name, url) ==
    LET g == get_user_id(name)
        m == Matching(items, g.id, url)
    IN Result(g.users, g.seq, set_purchased(items, m, FALSE), itemSeq,
              [Response("unmark_purchased", name, url, "unmarked", 200)
                  EXCEPT !.rowcount = Cardinality(m)])

\* Variant: the UPDATE without purchased = 1
ToArchiveAll(rows, uid) == {r \in rows : r.user_id = uid /\ ~r.archived}
\* The rows of UPDATE ... WHERE user_id = ? AND purchased = 1 AND archived = 0  (line 410)
ToArchive(rows, uid) == {r \in rows : r.user_id = uid /\ r.purchased /\ ~r.archived}

\* lines 406-413
archive_purchased(name) ==
    LET g == get_user_id(name)
        m == ToArchive(items, g.id)
    IN Result(g.users, g.seq, (items \ m) \cup {[r EXCEPT !.archived = TRUE] : r \in m}, itemSeq,
              [Response("archive_purchased", name, None, "archived", 200)
                  EXCEPT !.count = Cardinality(m), !.rowcount = Cardinality(m)])

\* Variant: only the row found first is tested for archived = 0, as add_item does
ActiveMatchingFirst(rows, uid, url) ==
    LET m == Matching(rows, uid, url)
    IN IF m = {} THEN {} ELSE {r \in {fetchone(m)} : ~r.archived}
\* SELECT id FROM items WHERE user_id = ? AND url = ? AND archived = 0  (line 424)
ActiveMatching(rows, uid, url) == {r \in Matching(rows, uid, url) : ~r.archived}

\* Variant: the UPDATE by the id of the row found first, as add_item restores
restore_item_first(name, url) ==
    LET g == get_user_id(name)
        m == Matching(items, g.id, url)
    IN IF ActiveMatching(items, g.id, url) # {}
       THEN Result(g.users, g.seq, items, itemSeq,
                   Response("restore", name, url, "exists_active", 400))
       ELSE Result(g.users, g.seq,
                   IF m = {} THEN items
                   ELSE (items \ {fetchone(m)}) \cup
                        {[fetchone(m) EXCEPT !.archived = FALSE, !.purchased = FALSE]},
                   itemSeq,
                   [Response("restore", name, url, "restored", 200)
                       EXCEPT !.rowcount = IF m = {} THEN 0 ELSE 1])
\* lines 416-430
restore_item(name, url) ==
    LET g == get_user_id(name)
        m == Matching(items, g.id, url)
    IN IF ActiveMatching(items, g.id, url) # {}
       THEN Result(g.users, g.seq, items, itemSeq,
                   Response("restore", name, url, "exists_active", 400))
       ELSE Result(g.users, g.seq,
                   (items \ m) \cup {[r EXCEPT !.archived = FALSE, !.purchased = FALSE] : r \in m},
                   itemSeq,
                   [Response("restore", name, url, "restored", 200)
                       EXCEPT !.rowcount = Cardinality(m)])

\* The columns of the two listings (lines 302, 316)
ListedColumns(r) ==
    [url |-> r.url, title |-> r.title, description |-> r.description, image |-> r.image,
     price |-> r.price, source |-> r.source, added |-> r.added_date, purchased |-> r.purchased]

\* ORDER BY id DESC
RECURSIVE OrderByIdDesc(_)
OrderByIdDesc(rows) ==
    IF rows = {} THEN <<>>
    ELSE LET r == CHOOSE x \in rows : \A o \in rows : x.id >= o.id
         IN <<ListedColumns(r)>> \o OrderByIdDesc(rows \ {r})

\* get_wishlist (archived = FALSE), lines 298-309, and get_archive_items
\* (archived = TRUE), lines 312-323
list_items(name, archived) ==
    LET g == get_user_id(name)
        m == {r \in items : r.user_id = g.id /\ r.archived = archived}
    IN Result(g.users, g.seq, items, itemSeq,
              [Response(IF archived THEN "archive" ELSE "wishlist", name, None, "ok", 200)
                  EXCEPT !.listing = OrderByIdDesc(m)])

get_wishlist(name) == list_items(name, FALSE)
get_archive_items(name) == list_items(name, TRUE)

(* ------------------------------- actions ------------------------------ *)
\* A handler runs while no response is waiting to be sent
Handle(res) ==
    /\ last = NoResponse
    /\ users' = res.users
    /\ userSeq' = res.userSeq
    /\ items' = res.items
    /\ itemSeq' = res.itemSeq
    /\ last' = res.response
    /\ UNCHANGED <<today, extractVars>>

\* The response is sent and the request ends (close_connection, lines 24-28)
Respond ==
    /\ last # NoResponse
    /\ last' = NoResponse
    /\ UNCHANGED <<dbVars, today, inflight, extractVars>>

AddBegin(name, url) ==
    LET res == add_item_check(name, url)
        fetching == Truthy(url) /\ res.response = NoResponse
    IN /\ Handle(res)
       /\ fetching => BagCardinality(inflight) < NumProcs
       /\ inflight' = IF fetching
                      THEN inflight (+) SetToBag({Pending(get_user_id(name).id, name, url)})
                      ELSE inflight

AddFinish(r, outcome) ==
    LET res == add_item_insert(r, outcome)
    IN /\ BagIn(r, inflight)
       /\ res.itemSeq <= MaxRows
       /\ Handle(res)
       /\ inflight' = inflight (-) SetToBag({r})

DeleteItem(name, url) == Handle(delete_item(name, url)) /\ UNCHANGED inflight
MarkPurchased(name, url) == Handle(mark_purchased(name, url)) /\ UNCHANGED inflight
UnmarkPurchased(name, url) == Handle(unmark_purchased(name, url)) /\ UNCHANGED inflight
ArchivePurchased(name) == Handle(archive_purchased(name)) /\ UNCHANGED inflight
RestoreItem(name, url) == Handle(restore_item(name, url)) /\ UNCHANGED inflight
GetWishlist(name) == Handle(get_wishlist(name)) /\ UNCHANGED inflight
GetArchiveItems(name) == Handle(get_archive_items(name)) /\ UNCHANGED inflight

\* date.today() moves on
NextDay ==
    /\ last = NoResponse
    /\ today < MaxDay
    /\ today' = today + 1
    /\ UNCHANGED <<dbVars, inflight, last, extractVars>>

\* The requests for the usernames U and the urls L, the network answering from O
Requests(U, L, O) ==
    \/ \E name \in U, url \in L : AddBegin(name, url)
    \/ \E r \in BagToSet(inflight), outcome \in O : AddFinish(r, outcome)
    \/ \E name \in U, url \in L : DeleteItem(name, url)
    \/ \E name \in U, url \in L : MarkPurchased(name, url)
    \/ \E name \in U, url \in L : UnmarkPurchased(name, url)
    \/ \E name \in U : ArchivePurchased(name)
    \/ \E name \in U, url \in L : RestoreItem(name, url)

\* The requests of user chris, add requests without a url under any username
Next ==
    \/ Requests({"chris"}, Urls, FetchOutcomes)
    \/ \E name \in Usernames, url \in {None, ""} : AddBegin(name, url)
    \/ Respond
    \/ NextDay

Spec == Init /\ [][Next]_vars

(* ------------------------- one request at a time ---------------------- *)
\* add_item as a whole, lines 326-369, when no other request runs while it
\* waits for fetch_metadata: the insert follows the check on the same rows
add_item(name, url, outcome) ==
    LET c == add_item_check(name, url) IN
    IF ~Truthy(url) \/ c.response # NoResponse THEN c
    ELSE LET i == add_item_insert(Pending(get_user_id(name).id, name, url), outcome)
         IN Result(c.users, c.userSeq, i.items, i.itemSeq, i.response)

AddItem(name, url, outcome) ==
    LET res == add_item(name, url, outcome)
    IN /\ res.itemSeq <= MaxRows
       /\ Handle(res)
       /\ UNCHANGED inflight

\* The server handles each request from its first line to its last before
\* the next one starts
NextSeq ==
    \/ \E name \in Usernames, url \in Urls, outcome \in FetchOutcomes :
            AddItem(name, url, outcome)
    \/ \E name \in Usernames, url \in Urls : DeleteItem(name, url)
    \/ \E name \in Usernames, url \in Urls : MarkPurchased(name, url)
    \/ \E name \in Usernames, url \in Urls : UnmarkPurchased(name, url)
    \/ \E name \in Usernames : ArchivePurchased(name)
    \/ \E name \in Usernames, url \in Urls : RestoreItem(name, url)
    \/ Respond

SpecSeq == Init /\ [][NextSeq]_vars

(* ------------------------ two users, one url -------------------------- *)
SharedUrl == {"http://a.example/p"}

\* The requests of both users for the same url, the two listings included
NextUsers ==
    \/ Requests(Usernames, SharedUrl, FetchOutcomes)
    \/ \E name \in Usernames : GetWishlist(name)
    \/ \E name \in Usernames : GetArchiveItems(name)
    \/ Respond

SpecUsers == Init /\ [][NextUsers]_vars

(* --------------------------- extraction runs -------------------------- *)
MetaTags ==
    {Meta("property", "og:title", c) : c \in {NoAttr, "", "Lamp"}} \cup
    {Meta("property", "og:description", c) : c \in {NoAttr, "", "A lamp"}} \cup
    {Meta("property", "og:image", c) : c \in {"", "lamp.png"}} \cup
    {Meta("property", "product:price:amount", c) : c \in {NoAttr, "", "19.99"}} \cup
    {Meta("property", "og:price:amount", c) : c \in {"", "18.50"}} \cup
    {Meta("itemprop", "price", c) : c \in {"", "17.00"}}

TitleStrings == {None, "  ", " Page "}

JsonTexts ==
    { None, "{",
      "{\"offers\":{\"price\":\"29.99\"}}",
      "{\"offers\":{\"price\":\"\"}}",
      "{\"offers\":[{\"price\":\"31.00\"},{\"price\":\"32.00\"}]}",
      "{\"offers\":[]}",
      "{\"offers\":\"free\"}",
      "{\"name\":\"x\"}",
      "{\"@graph\":[{\"offers\":{\"price\":\"42.00\"}}]}",
      "{\"@graph\":[{\"offers\":{\"price\":\"\"}},{\"offers\":{\"price\":\"43.00\"}}]}",
      "{\"@graph\":[null,{\"offers\":{\"price\":\"44.00\"}}]}",
      "[{\"offers\":{\"price\":\"45.00\"}}]" }

Elements ==
    MetaTags \cup {TitleTag(t) : t \in TitleStrings} \cup {LdJson(t) : t \in JsonTexts}
        \cup {Script("text/javascript", "{\"offers\":{\"price\":\"29.99\"}}")}

Documents == UNION {[1..n -> Elements] : n \in 0..MaxElems}

\* What the network can answer to the GET of fetch_metadata
Answers == {FetchFailure} \cup {Fetched(d) : d \in Documents}

InitExtract ==
    /\ users = {[id |-> 1, username |-> "chris"]}
    /\ userSeq = 1
    /\ items = {}
    /\ itemSeq = 0
    /\ today = 0
    /\ inflight = EmptyBag
    /\ last = NoResponse
    /\ fetched \in Answers
    /\ extracted = NotRun

\* A call of fetch_metadata returns or raises
FetchMetadata ==
    /\ extracted = NotRun
    /\ extracted' = fetch_metadata(fetched)
    /\ UNCHANGED <<dbVars, today, inflight, last, fetched>>

NextExtract == FetchMetadata

SpecExtract == InitExtract /\ [][NextExtract]_vars

(* ------------------------------- claims ------------------------------- *)
\* The id of a username, 0 when the users table does not hold it
UidOf(name) ==
    IF \E u \in users : u.username = name
    THEN (CHOOSE u \in users : u.username = name).id ELSE 0
\* The rows stored under the key (user, url)
RowsOf(rows, name, url) == {r \in rows : r.user_id = UidOf(name) /\ r.url = url}
Fetches(res) == res.response = NoResponse
SameDatabase(res) ==
    /\ res.users = users /\ res.userSeq = userSeq
    /\ res.items = items /\ res.itemSeq = itemSeq
AddSucceeded == last.op = "add" /\ last.status \in {"added", "restored"}
SecondAddIsNoOp ==
    LET res == add_item_check(last.username, last.url)
    IN res.response.status = "exists" /\ res.items = items /\ ~Fetches(res)

\* C1 as stated: after an add(user, url) that answered "added" or "restored"
\* (the row it produced is active), the same add run next answers "exists",
\* changes no row and does not call the fetcher.
C1_AddTwiceExists == AddSucceeded => SecondAddIsNoOp

\* C1 amended: the same, provided no row of (user, url) is archived when the
\* first add has answered (a concurrent add, mark_purchased and
\* archive_purchased can have left one).
C1_AddTwiceExistsNoArchived ==
    (AddSucceeded /\ \A r \in RowsOf(items, last.username, last.url) : ~r.archived)
        => SecondAddIsNoOp

C1_Witness ==
    /\ AddSucceeded
    /\ last.status = "restored"
    /\ Cardinality(RowsOf(items, last.username, last.url)) >= 2
    /\ \A r \in RowsOf(items, last.username, last.url) : ~r.archived
    /\ add_item_check(last.username, last.url).response.status = "exists"

\* C2: whenever a row of (user, url) is archived, add(user, url) restores
\* such a row (archived and purchased false, added_date today), answers
\* "restored" with that row's title, creates no row and does not call the
\* fetcher.
C2_AddRestoresArchived ==
    \A name \in Usernames, url \in Urls :
        (\E a \in RowsOf(items, name, url) : a.archived) =>
            LET res == add_item_check(name, url) IN
            /\ res.response.status = "restored"
            /\ ~Fetches(res)
            /\ \E a \in RowsOf(items, name, url) :
                /\ a.archived
                /\ res.response.title = a.title
                /\ res.items = (items \ {a}) \cup
                       {[a EXCEPT !.archived = FALSE, !.purchased = FALSE, !.added_date = today]}

\* C3: add(user, url) answers "restored" whenever some row of (user, url) is
\* archived, and "exists" only when rows of (user, url) exist and none is
\* archived.
C3_AddBranchOverAllRows ==
    \A name \in Usernames, url \in Urls :
        LET m == RowsOf(items, name, url)
            status == add_item_check(name, url).response.status
        IN /\ (\E a \in m : a.archived) => status = "restored"
           /\ status = "exists" => (m # {} /\ \A a \in m : ~a.archived)

\* C4: whenever some row of (user, url) is active, restore(user, url) answers
\* "exists_active" and changes nothing.
C4_RestoreRefusesOnActive ==
    \A name \in Usernames, url \in Urls :
        (\E a \in RowsOf(items, name, url) : ~a.archived) =>
            LET res == restore_item(name, url) IN
            /\ res.response.status = "exists_active"
            /\ res.response.code = 400
            /\ SameDatabase(res)

C4_Witness ==
    /\ last.op = "restore" /\ last.status = "exists_active"
    /\ \E a, b \in RowsOf(items, last.username, last.url) :
        a.id < b.id /\ a.archived /\ ~b.archived

\* C5: archive_purchased(user) sets archived on exactly the user's rows that
\* are purchased and not archived, answers their number, and leaves every
\* other row as it is; no unpurchased row becomes archived.
C5_ArchiveExactlyPurchased ==
    \A name \in Usernames :
        LET res == archive_purchased(name)
            hit(r) == r.user_id = UidOf(name) /\ r.purchased /\ ~r.archived
        IN /\ res.response.status = "archived"
           /\ res.response.count = Cardinality({r \in items : hit(r)})
           /\ Cardinality(res.items) = Cardinality(items)
           /\ \A r \in items :
                IF hit(r) THEN [r EXCEPT !.archived = TRUE] \in res.items
                ELSE r \in res.items
           /\ \A r \in res.items : (r.archived /\ ~r.purchased) => r \in items

C5_Witness ==
    /\ last.op = "archive_purchased" /\ last.count = 1
    /\ \E a, b, c \in items :
        /\ a.id # c.id
        /\ a.purchased /\ a.archived /\ c.purchased /\ c.archived
        /\ ~b.purchased /\ ~b.archived
        /\ {a.user_id, b.user_id, c.user_id} = {UidOf(last.username)}

\* C6: delete(user, url) removes every row of (user, url), whatever their
\* number and flags, and leaves every other row as it is.
C6_DeleteRemovesAllMatching ==
    \A name \in Usernames, url \in Urls :
        LET res == delete_item(name, url) IN
        /\ res.response.status = "deleted"
        /\ RowsOf(res.items, name, url) = {}
        /\ res.items = items \ RowsOf(items, name, url)

C6_Witness ==
    /\ last.op = "delete" /\ last.rowcount >= 2
    /\ RowsOf(items, last.username, last.url) = {}
    /\ \E r \in items : r.user_id = UidOf(last.username) /\ r.url # last.url

\* C7: a pending add whose fetch fails makes one fetch attempt, creates exactly
\* one row of (user, url) with title, description, image and price absent,
\* purchased and archived false, and answers "added".
C7_FetchFailureStillAdds ==
    \A r \in BagToSet(inflight) :
        LET res == add_item_insert(r, FetchFailure)
            new == res.items \ items
        IN /\ res.response.status = "added"
           /\ res.response.fetches = 1
           /\ items \subseteq res.items
           /\ Cardinality(new) = 1
           /\ \A n \in new :
                /\ n.user_id = r.user_id /\ n.url = r.url
                /\ {n.title, n.description, n.image, n.price} = {None}
                /\ ~n.purchased /\ ~n.archived

C7_Witness ==
    /\ last.op = "add" /\ last.status = "added" /\ last.title = None /\ last.fetches = 1
    /\ \E n \in RowsOf(items, last.username, last.url) :
        /\ n.id = itemSeq
        /\ {n.title, n.description, n.image, n.price} = {None}
        /\ ~n.purchased /\ ~n.archived

\* C8: an add without a url, or with an empty one, is answered with the
\* client error 400 and changes neither items nor users, nor calls the fetcher.
C8_AddWithoutUrlRejected ==
    \A name \in Usernames, url \in {None, ""} :
        LET res == add_item_check(name, url) IN
        /\ res.response.status = "error"
        /\ res.response.code = 400
        /\ ~Fetches(res)
        /\ SameDatabase(res)

C8_Witness ==
    /\ last.op = "add" /\ last.code = 400 /\ last.url = ""
    /\ UidOf(last.username) = 0
    /\ items # {}

\* C9: a pending add (its existence check saw no row) whose page is fetched
\* or not inserts its row and answers "added" whatever rows of (user, url)
\* exist by then, so two interleaved adds leave two rows of the same key.
C9_PendingAddAlwaysInserts ==
    \A r \in BagToSet(inflight), o \in FetchOutcomes :
        ~fetch_metadata(o).raised =>
            LET res == add_item_insert(r, o)
                key(x) == x.user_id = r.user_id /\ x.url = r.url
            IN /\ res.response.status = "added"
               /\ Cardinality({x \in res.items : key(x)})
                      = Cardinality({x \in items : key(x)}) + 1

C9_Witness ==
    /\ last.op = "add" /\ last.status = "added"
    /\ \E a, b \in RowsOf(items, last.username, last.url) :
        /\ a.id < b.id /\ b.id = itemSeq
        /\ ~a.archived /\ ~b.archived /\ ~a.purchased /\ ~b.purchased
        /\ a.added_date = b.added_date

\* The meta elements of tier 1 that carry a non-empty content
PricedMetas(d) ==
    {i \in 1..Len(d) :
        /\ d[i].tag = "meta"
        /\ <<d[i].attr, d[i].key>> \in {<<"property", "product:price:amount">>,
                                        <<"property", "og:price:amount">>,
                                        <<"itemprop", "price">>}
        /\ d[i].content \notin {NoAttr, ""}}
\* The ld+json blocks that hold an offers price
PricedBlocks(d) ==
    {i \in 1..Len(d) :
        /\ d[i].tag = "script" /\ d[i].type = "application/ld+json"
        /\ d[i].string \in {"{\"offers\":{\"price\":\"29.99\"}}",
                            "{\"offers\":[{\"price\":\"31.00\"},{\"price\":\"32.00\"}]}",
                            "{\"@graph\":[{\"offers\":{\"price\":\"42.00\"}}]}"}}
\* fetch_metadata has run on a page that was fetched, and returned
Returned == fetched.ok /\ extracted # NotRun /\ ~extracted.raised

\* C10: from a document with a tier-1 meta price of non-empty content and a
\* JSON-LD offers price, the extractor returns a meta-tag price.
C10_MetaPriceBeatsJsonLd ==
    (Returned /\ PricedMetas(fetched.doc) # {} /\ PricedBlocks(fetched.doc) # {})
        => \E i \in PricedMetas(fetched.doc) : extracted.price = fetched.doc[i].content

(* ------------------------ claims on the extractor ---------------------- *)
Unprocessable == "<unprocessable>"
NoOffers == "<no-offers>"
Least(S) == CHOOSE i \in S : \A j \in S : i <= j

\* What one candidate object offers: its offers price (None when offers holds
\* none), NoOffers without an offers field, Unprocessable when it is not an
\* object or its offers list has no first object
OfferedPrice(obj) ==
    IF obj.t # "dict" THEN Unprocessable
    ELSE IF "offers" \notin DOMAIN obj.map THEN NoOffers
    ELSE LET offers == obj.map["offers"] IN
         CASE offers.t = "dict" -> DictGet(offers, "price")
           [] offers.t = "list" ->
                IF offers.elems = <<>> \/ offers.elems[1].t # "dict" THEN Unprocessable
                ELSE DictGet(offers.elems[1], "price")
           [] OTHER -> NoOffers

\* The candidate objects of a block: the elements of @graph when present,
\* else the object itself; a text that is not JSON is one unprocessable candidate
BlockCandidates(text) ==
    LET parsed == json_loads(text) IN
    IF ~parsed.ok THEN <<JNull>>
    ELSE IF parsed.value.t # "dict" THEN <<>>
    ELSE IF "@graph" \notin DOMAIN parsed.value.map THEN <<parsed.value>>
    ELSE IF parsed.value.map["@graph"].t = "list" THEN parsed.value.map["@graph"].elems
    ELSE <<JNull>>

\* The first non-empty offers price of a block met before anything
\* unprocessable, None when there is none
BlockPrice(e) ==
    LET c == BlockCandidates(e.string)
        o == [k \in 1..Len(c) |-> OfferedPrice(c[k])]
        good == {k \in 1..Len(c) :
                    /\ o[k] \notin {Unprocessable, NoOffers, None, ""}
                    /\ \A j \in 1..(k - 1) : o[j] # Unprocessable}
    IN IF good = {} THEN None ELSE o[Least(good)]

\* The first non-empty offers price of the ld+json blocks in document order
FirstJsonLdPrice(d) ==
    LET blocks == {i \in 1..Len(d) : IsLdJson(d[i]) /\ BlockPrice(d[i]) # None}
    IN IF blocks = {} THEN None ELSE BlockPrice(d[Least(blocks)])

\* C11: from a document without a tier-1 meta price whose ld+json blocks
\* hold a non-empty offers price, the extractor returns the first such price
\* in document order (inside a block: the candidates in order); a block that
\* cannot be processed is skipped and the blocks after it are still scanned.
C11_JsonLdFirstPrice ==
    (Returned /\ PricedMetas(fetched.doc) = {} /\ FirstJsonLdPrice(fetched.doc) # None)
        => extracted.price = FirstJsonLdPrice(fetched.doc)

C11_Witness ==
    /\ Returned /\ PricedMetas(fetched.doc) = {}
    /\ Len(fetched.doc) = 3
    /\ fetched.doc[1] = LdJson("{")
    /\ fetched.doc[2] = LdJson("{\"@graph\":[{\"offers\":{\"price\":\"\"}},{\"offers\":{\"price\":\"43.00\"}}]}")
    /\ fetched.doc[3] = LdJson("{\"offers\":{\"price\":\"29.99\"}}")
    /\ extracted.price = "43.00"

\* The place of a tier-1 element in the order product:price:amount,
\* og:price:amount, itemprop=price
KindRank(e) ==
    CASE e.key = "product:price:amount" -> 1
      [] e.key = "og:price:amount" -> 2
      [] OTHER -> 3
Before(d, i, j) ==
    \/ KindRank(d[i]) < KindRank(d[j])
    \/ KindRank(d[i]) = KindRank(d[j]) /\ i <= j

\* C12: from a document with tier-1 meta elements of non-empty content, the
\* extractor returns the content of the first of them in the order
\* product:price:amount, og:price:amount, itemprop=price; elements with empty
\* or missing content do not stand in its way.
C12_Tier1FirstNonEmpty ==
    (Returned /\ PricedMetas(fetched.doc) # {}) =>
        \E i \in PricedMetas(fetched.doc) :
            /\ \A j \in PricedMetas(fetched.doc) : Before(fetched.doc, i, j)
            /\ extracted.price = fetched.doc[i].content

\* C13: each of title, description, image and price that the extractor
\* returns is absent or non-empty, never the empty string.
C13_AbsentNotEmpty ==
    Returned =>
        "" \notin {extracted.title, extracted.description, extracted.image, extracted.price}

(* ----------------------- claims on the lifecycle ----------------------- *)
Ids(rows) == {r.id : r \in rows}

\* C14: the row an add creates carries today's date, and so does every row
\* restored, by add's restore as by restore(user, url).
C14_AddedDateOnCreateAndRestore ==
    /\ \A r \in BagToSet(inflight), o \in FetchOutcomes :
            \A n \in add_item_insert(r, o).items \ items : n.added_date = today
    /\ \A name \in Usernames, url \in Urls :
            LET res == add_item_check(name, url) IN
            res.response.status = "restored" =>
                \A n \in res.items \ items : n.added_date = today
    /\ \A name \in Usernames, url \in Urls :
            LET res == restore_item(name, url) IN
            res.response.status = "restored" =>
                \A n \in RowsOf(res.items, name, url) : n.added_date = today

\* C15: when no row of (user, url) is active, restore(user, url) answers
\* "restored", leaves every row of the key (all duplicates) with archived and
\* purchased false, creates and deletes no row and leaves the other rows as
\* they are.
C15_RestoreAllMatching ==
    \A name \in Usernames, url \in Urls :
        (\A a \in RowsOf(items, name, url) : a.archived) =>
            LET res == restore_item(name, url) IN
            /\ res.response.status = "restored"
            /\ Ids(res.items) = Ids(items)
            /\ Cardinality(res.items) = Cardinality(items)
            /\ res.itemSeq = itemSeq
            /\ items \ RowsOf(items, name, url) \subseteq res.items
            /\ \A r \in res.items :
                  r.id \in Ids(RowsOf(items, name, url)) => ~r.archived /\ ~r.purchased

C15_Witness ==
    /\ last.op = "restore" /\ last.status = "restored" /\ last.rowcount >= 2
    /\ Cardinality(RowsOf(items, last.username, last.url)) >= 2
    /\ \A r \in RowsOf(items, last.username, last.url) : ~r.archived /\ ~r.purchased

\* C16: mark_purchased(user, url) and unmark_purchased(user, url) set
\* purchased on every row of the key, archived or not, and change no other
\* field and no other row.
C16_PurchasedOnAllMatching ==
    \A name \in Usernames, url \in Urls, flag \in BOOLEAN :
        LET res == IF flag THEN mark_purchased(name, url) ELSE unmark_purchased(name, url)
            m == RowsOf(items, name, url)
        IN /\ res.response.status = (IF flag THEN "marked" ELSE "unmarked")
           /\ Cardinality(res.items) = Cardinality(items)
           /\ \A r \in items :
                IF r \in m THEN [r EXCEPT !.purchased = flag] \in res.items
                ELSE r \in res.items

\* A row archived and not purchased, left by unmark_purchased next to an
\* active row of the same key
C16_Witness ==
    /\ last.op = "unmark_purchased" /\ last.rowcount = 2
    /\ \E a, b \in RowsOf(items, last.username, last.url) :
        /\ a.archived /\ ~a.purchased
        /\ ~b.archived /\ ~b.purchased

\* C17: with one request at a time, from a repository without items, no two
\* rows share a (user, url) pair, so no pair has two active rows.
C17_OneRowPerKey ==
    \A a, b \in items : (a.user_id = b.user_id /\ a.url = b.url) => a = b

\* An add answered "exists" after a row was deleted and added again, both
\* users holding a row of the same url
C17_Witness ==
    /\ last.op = "add" /\ last.status = "exists"
    /\ itemSeq > Cardinality(items)
    /\ \E a, b \in items : a.user_id # b.user_id /\ a.url = b.url
    /\ \E a \in items : a.archived

\* The rows that are not those of user uid are the same after the request
OthersKept(res, uid) ==
    {r \in res.items : r.user_id # uid} = {r \in items : r.user_id # uid}

\* C18: add, delete, mark_purchased, unmark_purchased, archive_purchased and
\* restore for user u leave the rows of every other user as they are, rows of
\* the same url included; the row a pending add inserts is owned by its user.
C18_UserIsolation ==
    /\ \A name \in Usernames, url \in Urls :
            LET uid == get_user_id(name).id IN
            /\ OthersKept(add_item_check(name, url), uid)
            /\ OthersKept(delete_item(name, url), uid)
            /\ OthersKept(mark_purchased(name, url), uid)
            /\ OthersKept(unmark_purchased(name, url), uid)
            /\ OthersKept(archive_purchased(name), uid)
            /\ OthersKept(restore_item(name, url), uid)
    /\ \A r \in BagToSet(inflight), o \in FetchOutcomes :
            /\ r.user_id = UidOf(r.username)
            /\ OthersKept(add_item_insert(r, o), r.user_id)

\* A delete that removed its user's row and left the other user's row of
\* the same url
C18_Witness ==
    /\ last.op = "delete" /\ last.rowcount >= 1
    /\ RowsOf(items, last.username, last.url) = {}
    /\ \E r \in items : r.url = last.url /\ r.user_id # UidOf(last.username) /\ r.purchased

\* C19: whatever page was fetched, a pending add creates exactly one row and
\* answers "added": the extraction returns and does not raise.
C19_ExtractionNeverFailsAdd ==
    \A r \in BagToSet(inflight), o \in FetchOutcomes :
        o.ok =>
            LET res == add_item_insert(r, o) IN
            /\ ~fetch_metadata(o).raised
            /\ res.response.status = "added"
            /\ items \subseteq res.items
            /\ Cardinality(res.items \ items) = 1

\* C20: listing the active or the archived items of a username, known or
\* not, returns exactly that user's rows of that archived flag and changes
\* neither items nor users.
C20_ListingsReadOnly ==
    \A name \in Usernames, archived \in BOOLEAN :
        LET res == list_items(name, archived)
            shown == {r \in items : r.user_id = UidOf(name) /\ r.archived = archived}
        IN /\ res.items = items
           /\ res.users = users
           /\ Len(res.response.listing) = Cardinality(shown)
           /\ {res.response.listing[i] : i \in 1..Len(res.response.listing)}
                  = {ListedColumns(r) : r \in shown}
====
